---- MODULE Spec2Model ----
(***************************************************************************)
(* The two user programs of the repository, test4.c and testcow.c, run on  *)
(* an xv6 kernel with copy-on-write fork.  Each program is a parent        *)
(* process that measures the free-page counter, allocates a 4096-byte      *)
(* buffer, forks, and then parent and child each store one byte into the   *)
(* buffer and compare the counter before and after the store.              *)
(*                                                                         *)
(* The programs are translated statement by statement: the program         *)
(* counter of a process is the source line of its next statement.  The     *)
(* kernel side (getNumFreePages, malloc, fork, the page fault on a store   *)
(* to a copy-on-write page, sleep, wait, exit) is not part of the source   *)
(* files; it is modelled from the specification's description of the       *)
(* kernel contract.                                                        *)
(*                                                                         *)
(* Every variable is a function of the run.  Spec follows one run.         *)
(* SpecPair follows two schedules of the same forked program: the run is   *)
(* duplicated when fork returns, so the two runs share everything up to    *)
(* the fork and differ only in how parent and child are interleaved.       *)
(* SpecVerdict applies the verdict comparisons of both programs to the     *)
(* same pair of snapshots.                                                 *)
(***************************************************************************)
EXTENDS Integers, Sequences, FiniteSets, TLC

VARIABLES
    schedules,  \* how many schedules are followed after fork (1 or 2)
    prog,       \* prog[r]: the program of run r
    pc,         \* pc[r][p]: source line of the next statement of p, 0 = none
    local,      \* local[r][p]: the local variables of main in process p
    out,        \* out[r][p]: source lines of the printf calls p has executed
    pstate,     \* pstate[r][p]: kernel process state
    freePages,  \* freePages[r]: the kernel's count of free physical pages
    kpages,     \* kpages[r]: pages the kernel holds for the child process
    frame,      \* frame[r][p]: physical frame behind the buffer page, 0 = none
    writable,   \* writable[r][p]: the buffer page is mapped writable in p
    refcnt,     \* refcnt[r][f]: number of address spaces mapping frame f
    mem,        \* mem[r][f]: byte 0 of frame f
    calls,      \* calls[r][p][s]: how often p has executed statement kind s
    stores,     \* stores[r]: the processes in the order of their stores
    seen,       \* seen[r][p]: Len(stores) when p took its post-fork snapshot
    probe       \* inputs and results of the verdict comparisons (SpecVerdict)

vars == << schedules, prog, pc, local, out, pstate, freePages, kpages, frame,
           writable, refcnt, mem, calls, stores, seen, probe >>

Parent == "parent"
Child == "child"
Proc == {Parent, Child}
Other(p) == IF p = Parent THEN Child ELSE Parent
Programs == {"test4", "testcow"}
Frames == {1, 2, 3}
Counted == {"malloc", "fork", "store", "wait"}

\* Bounds of the model.
FreeSpread == 1
MaxMallocPages == 1
MaxForkPages == 1
MaxCount == 7

\* Values of the program.
AllocSize == 4096
SleepTicks == 10
ByteC_wrong == "P"
ByteC == "C"
ByteP == "P"

\* Values of the kernel.
BufAddr == 4096
ChildPid == 4
Unset == 0 - 1
NoByte == "?"

\* The smallest initial free-page count lets every allocation of a run succeed.
MinFree == MaxMallocPages + MaxForkPages + 1
InitFree == MinFree .. (MinFree + FreeSpread)

NoLocals ==
    [ initial_free_pages |-> Unset, parent_memory |-> Unset,
      free_pages_after_alloc |-> Unset, pid |-> Unset,
      free_pages_after_fork |-> Unset,
      free_pages_after_modification |-> Unset ]

(***************************************************************************)
(* The statements of the two programs, by source line.                     *)
(***************************************************************************)
GetFree(v) == [op |-> "getfree", var |-> v]
PrintF == [op |-> "printf"]
Store(b) == [op |-> "store", byte |-> b]
Verdict(okLine, badLine) == [op |-> "verdict", ok |-> okLine, bad |-> badLine]
Simple(o) == [op |-> o]

\* Prefix with the targets of the first two snapshots exchanged.
Prefix_swapped ==
    11 :> GetFree("free_pages_after_alloc") @@ 12 :> PrintF @@
    15 :> Simple("malloc") @@ 17 :> PrintF @@ 18 :> Simple("exit") @@
    22 :> GetFree("initial_free_pages") @@ 23 :> PrintF @@
    26 :> Simple("fork") @@ 28 :> PrintF @@ 29 :> Simple("exit")

Prefix ==
    11 :> GetFree("initial_free_pages") @@ 12 :> PrintF @@
    15 :> Simple("malloc") @@ 17 :> PrintF @@ 18 :> Simple("exit") @@
    22 :> GetFree("free_pages_after_alloc") @@ 23 :> PrintF @@
    26 :> Simple("fork") @@ 28 :> PrintF @@ 29 :> Simple("exit")

Test4 ==
    Prefix @@
    35 :> GetFree("free_pages_after_fork") @@ 36 :> Simple("sleep") @@
    37 :> PrintF @@ 40 :> Store(ByteC) @@ 41 :> PrintF @@
    42 :> GetFree("free_pages_after_modification") @@ 43 :> PrintF @@
    46 :> Verdict(47, 49) @@ 51 :> Simple("exit") @@
    55 :> GetFree("free_pages_after_fork") @@ 56 :> PrintF @@
    59 :> Store(ByteP) @@ 60 :> PrintF @@
    61 :> GetFree("free_pages_after_modification") @@ 62 :> PrintF @@
    65 :> Verdict(66, 68) @@ 72 :> Simple("wait") @@ 75 :> Simple("exit")

Testcow ==
    Prefix @@
    33 :> GetFree("free_pages_after_fork") @@ 34 :> PrintF @@
    39 :> Store(ByteC) @@ 40 :> PrintF @@
    41 :> GetFree("free_pages_after_modification") @@ 42 :> PrintF @@
    44 :> Verdict(45, 47) @@ 50 :> Simple("exit") @@
    53 :> Store(ByteP) @@ 54 :> PrintF @@
    56 :> GetFree("free_pages_after_modification") @@ 57 :> PrintF @@
    60 :> Verdict(61, 63) @@ 66 :> Simple("wait") @@ 71 :> Simple("exit")

Code(pg) == IF pg = "test4" THEN Test4 ELSE Testcow

\* The statement process p of run r is about to execute.
Stmt(r, p) ==
    IF pc[r][p] \in DOMAIN Code(prog[r]) THEN Code(prog[r])[pc[r][p]]
    ELSE Simple("none")

(***************************************************************************)
(* Control flow: the line that follows `line`, given the locals after it.  *)
(***************************************************************************)
\* PrefixNext without the exit() of line 18: the failure branch of malloc
\* falls through to step 3.
PrefixNext_noexit(line, loc) ==
    CASE line = 11 -> 12
      [] line = 12 -> 15
      [] line = 15 -> IF loc.parent_memory = 0 THEN 17 ELSE 22
      [] line = 17 -> 22
      [] line = 22 -> 23
      [] line = 23 -> 26
      [] line = 28 -> 29
      [] OTHER -> 0

PrefixNext(line, loc) ==
    CASE line = 11 -> 12
      [] line = 12 -> 15
      [] line = 15 -> IF loc.parent_memory = 0 THEN 17 ELSE 22
      [] line = 17 -> 18
      [] line = 22 -> 23
      [] line = 23 -> 26
      [] line = 28 -> 29
      [] OTHER -> 0

\* Test4Next without the wait() of line 72: the parent exits after its verdict.
Test4Next_nowait(line, loc) ==
    CASE line = 26 ->
            IF loc.pid < 0 THEN 28 ELSE IF loc.pid = 0 THEN 35 ELSE 55
      [] line = 35 -> 36
      [] line = 36 -> 37
      [] line = 37 -> 40
      [] line = 40 -> 41
      [] line = 41 -> 42
      [] line = 42 -> 43
      [] line = 43 -> 46
      [] line = 46 -> 51
      [] line = 55 -> 56
      [] line = 56 -> 59
      [] line = 59 -> 60
      [] line = 60 -> 61
      [] line = 61 -> 62
      [] line = 62 -> 65
      [] line = 65 -> 75
      [] OTHER -> PrefixNext(line, loc)

\* Test4Next with the child's sleep(10) ahead of its post-fork snapshot.
Test4Next_sleepfirst(line, loc) ==
    CASE line = 26 ->
            IF loc.pid < 0 THEN 28 ELSE IF loc.pid = 0 THEN 36 ELSE 55
      [] line = 36 -> 35
      [] line = 35 -> 37
      [] line = 37 -> 40
      [] line = 40 -> 41
      [] line = 41 -> 42
      [] line = 42 -> 43
      [] line = 43 -> 46
      [] line = 46 -> 51
      [] line = 55 -> 56
      [] line = 56 -> 59
      [] line = 59 -> 60
      [] line = 60 -> 61
      [] line = 61 -> 62
      [] line = 62 -> 65
      [] line = 65 -> 72
      [] line = 72 -> 75
      [] OTHER -> PrefixNext(line, loc)

Test4Next(line, loc) ==
    CASE line = 26 ->
            IF loc.pid < 0 THEN 28 ELSE IF loc.pid = 0 THEN 35 ELSE 55
      [] line = 35 -> 36
      [] line = 36 -> 37
      [] line = 37 -> 40
      [] line = 40 -> 41
      [] line = 41 -> 42
      [] line = 42 -> 43
      [] line = 43 -> 46
      [] line = 46 -> 51
      [] line = 55 -> 56
      [] line = 56 -> 59
      [] line = 59 -> 60
      [] line = 60 -> 61
      [] line = 61 -> 62
      [] line = 62 -> 65
      [] line = 65 -> 72
      [] line = 72 -> 75
      [] OTHER -> PrefixNext(line, loc)

TestcowNext(line, loc) ==
    CASE line = 26 -> IF loc.pid < 0 THEN 28 ELSE 33
      [] line = 33 -> 34
      [] line = 34 -> IF loc.pid = 0 THEN 39 ELSE 53
      [] line = 39 -> 40
      [] line = 40 -> 41
      [] line = 41 -> 42
      [] line = 42 -> 44
      [] line = 44 -> 50
      [] line = 53 -> 54
      [] line = 54 -> 56
      [] line = 56 -> 57
      [] line = 57 -> 60
      [] line = 60 -> 66
      [] line = 66 -> 71
      [] OTHER -> PrefixNext(line, loc)

Flow(pg, line, loc) ==
    IF pg = "test4" THEN Test4Next(line, loc) ELSE TestcowNext(line, loc)

\* Compare with the child of test4.c testing for a decrease as well.
Compare_lt(pg, line, am, af) == am < af

\* The comparison of the verdict at `line`: TRUE prints the success message.
Compare(pg, line, am, af) ==
    IF pg = "test4" /\ line = 46 THEN am = af ELSE am < af

(***************************************************************************)
(* The kernel contract.                                                    *)
(***************************************************************************)
\* getNumFreePages(): the current count of free physical pages, system wide.
GetNumFreePages(r) == freePages[r]

\* The outcomes of malloc(size): address 0 on failure, else the buffer and the
\* number of pages the allocator took from the kernel for it.
MallocOutcomes(size) ==
    {[addr |-> 0, pages |-> 0]} \cup
    {[addr |-> BufAddr, pages |-> k] : k \in 0 .. MaxMallocPages}

\* The outcomes of fork(): failure, else the number of pages taken for the
\* child's kernel stack and page tables.
ForkOutcomes ==
    {[ok |-> FALSE, pages |-> 0]} \cup
    {[ok |-> TRUE, pages |-> k] : k \in 1 .. MaxForkPages}

\* x in every schedule followed after fork; x in process p and y in the other.
All(x) == [q \in 1 .. schedules |-> x]
Both(p, x, y) == [q \in Proc |-> IF q = p THEN x ELSE y]

\* malloc with outcome o: the buffer page is mapped writable in p.
SysMalloc(r, p, o) ==
    /\ o.pages <= freePages[r]
    /\ freePages' = [freePages EXCEPT ![r] = @ - o.pages]
    /\ IF o.addr = 0
       THEN UNCHANGED << frame, writable, refcnt >>
       ELSE /\ frame' = [frame EXCEPT ![r][p] = 1]
            /\ writable' = [writable EXCEPT ![r][p] = TRUE]
            /\ refcnt' = [refcnt EXCEPT ![r][1] = 1]
    /\ UNCHANGED << pstate, kpages, mem >>

\* fork with outcome o: the child is made runnable; the buffer page is not
\* copied but shared, and mapped read-only in parent and child.
SysFork(r, p, o) ==
    /\ o.pages <= freePages[r]
    /\ IF ~o.ok
       THEN UNCHANGED << pstate, freePages, kpages, frame, writable, refcnt,
                         mem >>
       ELSE LET f == frame[r][p]
            IN  /\ pstate' = All(Both(p, "runnable", "runnable"))
                /\ freePages' = All(freePages[r] - o.pages)
                /\ kpages' = All(o.pages)
                /\ frame' = All(Both(p, f, f))
                /\ writable' = All(Both(p, FALSE, FALSE))
                /\ refcnt' = All([refcnt[r] EXCEPT ![f] = @ + 1])
                /\ mem' = All(mem[r])

\* CowCopies with the reference count ignored: every faulting store copies.
CowCopies_always(r, p) == ~writable[r][p]

\* A store to a page that is mapped read-only and shared is given a copy.
CowCopies(r, p) == ~writable[r][p] /\ refcnt[r][frame[r][p]] > 1

FreshFrame(r) == CHOOSE f \in Frames : refcnt[r][f] = 0

\* A store of byte b into the buffer page.  A store to a read-only page
\* faults: a shared frame is copied into a fresh one for the storing process,
\* a frame that is no longer shared is made writable in place.
SysStore(r, p, b) ==
    /\ LET f == frame[r][p]
       IN  IF CowCopies(r, p)
           THEN LET g == FreshFrame(r)
                IN  /\ freePages[r] > 0
                    /\ freePages' = [freePages EXCEPT ![r] = @ - 1]
                    /\ refcnt' = [refcnt EXCEPT ![r][f] = @ - 1, ![r][g] = 1]
                    /\ frame' = [frame EXCEPT ![r][p] = g]
                    /\ mem' = [mem EXCEPT ![r][g] = b]
                    /\ writable' = [writable EXCEPT ![r][p] = TRUE]
           ELSE /\ mem' = [mem EXCEPT ![r][f] = b]
                /\ writable' = [writable EXCEPT ![r][p] = TRUE]
                /\ UNCHANGED << freePages, refcnt, frame >>
    /\ UNCHANGED << pstate, kpages >>

\* sleep(n): the process is blocked until the timer wakes it.
SysSleep(r, p, n) ==
    /\ pstate' = [pstate EXCEPT ![r][p] = IF n > 0 THEN "sleeping" ELSE @]
    /\ UNCHANGED << freePages, kpages, frame, writable, refcnt, mem >>

\* wait(): blocks until the child is a zombie, then frees what it held.
SysWait(r, p) ==
    /\ LET c == Other(p)
           f == frame[r][c]
           last == IF refcnt[r][f] = 1 THEN 1 ELSE 0
       IN  /\ pstate[r][c] = "zombie"
           /\ pstate' = [pstate EXCEPT ![r][c] = "unused"]
           /\ freePages' = [freePages EXCEPT ![r] = @ + kpages[r] + last]
           /\ kpages' = [kpages EXCEPT ![r] = 0]
           /\ refcnt' = [refcnt EXCEPT ![r][f] = @ - 1]
           /\ frame' = [frame EXCEPT ![r][c] = 0]
           /\ writable' = [writable EXCEPT ![r][c] = FALSE]
    /\ UNCHANGED mem

\* exit(): the process becomes a zombie until its parent waits for it.
SysExit(r, p) ==
    /\ pstate' = [pstate EXCEPT ![r][p] = "zombie"]
    /\ UNCHANGED << freePages, kpages, frame, writable, refcnt, mem >>

(***************************************************************************)
(* Initial states.                                                         *)
(***************************************************************************)
Idle == [af |-> 0, am |-> 0, done |-> FALSE, ok |-> <<>>]

InitRun(n) ==
    /\ schedules = n
    /\ prog \in [{1} -> Programs]
    /\ pc = 1 :> [p \in Proc |-> IF p = Parent THEN 11 ELSE 0]
    /\ local = 1 :> [p \in Proc |-> NoLocals]
    /\ out = 1 :> [p \in Proc |-> <<>>]
    /\ pstate = 1 :> [p \in Proc |-> IF p = Parent THEN "runnable" ELSE "unused"]
    /\ freePages \in [{1} -> InitFree]
    /\ kpages = 1 :> 0
    /\ frame = 1 :> [p \in Proc |-> 0]
    /\ writable = 1 :> [p \in Proc |-> FALSE]
    /\ refcnt = 1 :> [f \in Frames |-> 0]
    /\ mem = 1 :> [f \in Frames |-> NoByte]
    /\ calls = 1 :> [p \in Proc |-> [s \in Counted |-> 0]]
    /\ stores = 1 :> <<>>
    /\ seen = 1 :> [p \in Proc |-> Unset]

Init == InitRun(1) /\ probe = Idle

InitPair == InitRun(2) /\ probe = Idle

(***************************************************************************)
(* The statements.                                                         *)
(***************************************************************************)
At(r, p, o) == pstate[r][p] = "runnable" /\ Stmt(r, p).op = o

Goto(r, p, loc) == pc' = [pc EXCEPT ![r][p] = Flow(prog[r], pc[r][p], loc)]

Count(r, p, s) == calls' = [calls EXCEPT ![r][p][s] = @ + 1]

\* Snapshot with the parent's post-fork snapshot of test4.c (line 55) reusing
\* the value measured before the fork.
Snapshot_stale(r, p) ==
    IF prog[r] = "test4" /\ pc[r][p] = 55
    THEN local[r][p].free_pages_after_alloc
    ELSE GetNumFreePages(r)

\* The value a snapshot statement assigns: the result of getNumFreePages().
Snapshot(r, p) == GetNumFreePages(r)

\* v = getNumFreePages();
DoGetFree(r, p) ==
    /\ At(r, p, "getfree")
    /\ LET v == Stmt(r, p).var
           loc == [local[r][p] EXCEPT ![v] = Snapshot(r, p)]
       IN  /\ local' = [local EXCEPT ![r][p] = loc]
           /\ Goto(r, p, loc)
           /\ seen' = IF v = "free_pages_after_fork"
                      THEN [seen EXCEPT ![r][p] = Len(stores[r])]
                      ELSE seen
    /\ UNCHANGED << schedules, prog, out, pstate, freePages, kpages, frame,
                    writable, refcnt, mem, calls, stores, probe >>

\* printf(1, ...);
DoPrintf(r, p) ==
    /\ At(r, p, "printf")
    /\ out' = [out EXCEPT ![r][p] = Append(@, pc[r][p])]
    /\ Goto(r, p, local[r][p])
    /\ UNCHANGED << schedules, prog, local, pstate, freePages, kpages, frame,
                    writable, refcnt, mem, calls, stores, seen, probe >>

\* parent_memory = (char *) malloc(4096);
DoMalloc(r, p) ==
    /\ At(r, p, "malloc")
    /\ \E o \in MallocOutcomes(AllocSize) :
        /\ SysMalloc(r, p, o)
        /\ LET loc == [local[r][p] EXCEPT !.parent_memory = o.addr]
           IN  /\ local' = [local EXCEPT ![r][p] = loc]
               /\ Goto(r, p, loc)
    /\ Count(r, p, "malloc")
    /\ UNCHANGED << schedules, prog, out, stores, seen, probe >>

\* int pid = fork();  The parent continues with the child's pid (or -1), the
\* child starts at the same statement as a copy of the parent with pid 0.
\* From a successful fork on, the run is followed under every schedule of
\* 1 .. schedules.
DoFork(r, p) ==
    /\ At(r, p, "fork")
    /\ \E o \in ForkOutcomes :
        /\ SysFork(r, p, o)
        /\ IF ~o.ok
           THEN LET loc == [local[r][p] EXCEPT !.pid = 0 - 1]
                IN  /\ local' = [local EXCEPT ![r][p] = loc]
                    /\ Goto(r, p, loc)
                    /\ Count(r, p, "fork")
                    /\ UNCHANGED << prog, out, stores, seen >>
           ELSE LET ploc == [local[r][p] EXCEPT !.pid = ChildPid]
                    cloc == [local[r][p] EXCEPT !.pid = 0]
                IN  /\ local' = All(Both(p, ploc, cloc))
                    /\ pc' = All(Both(p, Flow(prog[r], pc[r][p], ploc),
                                         Flow(prog[r], pc[r][p], cloc)))
                    /\ out' = All(Both(p, out[r][p], <<>>))
                    /\ calls' = All(Both(p,
                            [calls[r][p] EXCEPT !["fork"] = @ + 1],
                            [s \in Counted |-> 0]))
                    /\ prog' = All(prog[r])
                    /\ stores' = All(stores[r])
                    /\ seen' = All(seen[r])
    /\ UNCHANGED << schedules, probe >>

\* parent_memory[0] = 'C';  or  parent_memory[0] = 'P';
DoStore(r, p) ==
    /\ At(r, p, "store")
    /\ SysStore(r, p, Stmt(r, p).byte)
    /\ stores' = [stores EXCEPT ![r] = Append(@, p)]
    /\ Goto(r, p, local[r][p])
    /\ Count(r, p, "store")
    /\ UNCHANGED << schedules, prog, local, out, seen, probe >>

\* sleep(10);
DoSleep(r, p) ==
    /\ At(r, p, "sleep")
    /\ SysSleep(r, p, SleepTicks)
    /\ Goto(r, p, local[r][p])
    /\ UNCHANGED << schedules, prog, local, out, calls, stores, seen, probe >>

\* The timer interrupt that ends the sleep.
DoWakeup(r, p) ==
    /\ pstate[r][p] = "sleeping"
    /\ pstate' = [pstate EXCEPT ![r][p] = "runnable"]
    /\ UNCHANGED << schedules, prog, pc, local, out, freePages, kpages, frame,
                    writable, refcnt, mem, calls, stores, seen, probe >>

\* if (free_pages_after_modification <rel> free_pages_after_fork)
\*     printf(success);  else  printf(failure);
DoVerdict(r, p) ==
    /\ At(r, p, "verdict")
    /\ LET st == Stmt(r, p)
           loc == local[r][p]
           line == IF Compare(prog[r], pc[r][p],
                              loc.free_pages_after_modification,
                              loc.free_pages_after_fork)
                   THEN st.ok ELSE st.bad
       IN  out' = [out EXCEPT ![r][p] = Append(@, line)]
    /\ Goto(r, p, local[r][p])
    /\ UNCHANGED << schedules, prog, local, pstate, freePages, kpages, frame,
                    writable, refcnt, mem, calls, stores, seen, probe >>

\* wait();
DoWait(r, p) ==
    /\ At(r, p, "wait")
    /\ SysWait(r, p)
    /\ Goto(r, p, local[r][p])
    /\ Count(r, p, "wait")
    /\ UNCHANGED << schedules, prog, local, out, stores, seen, probe >>

\* exit();
DoExit(r, p) ==
    /\ At(r, p, "exit")
    /\ SysExit(r, p)
    /\ Goto(r, p, local[r][p])
    /\ UNCHANGED << schedules, prog, local, out, calls, stores, seen, probe >>

\* Run r is over: none of its processes will run again.
Finished(r) == \A p \in Proc : pstate[r][p] \in {"zombie", "unused"}

\* The runs of SpecPair are independent executions: the second is followed
\* once the first is over.
Turn(r) == \A q \in DOMAIN pc : q < r => Finished(q)

Next ==
    \/ \E r \in DOMAIN pc : \E p \in Proc : Turn(r) /\ DoGetFree(r, p)
    \/ \E r \in DOMAIN pc : \E p \in Proc : Turn(r) /\ DoPrintf(r, p)
    \/ \E r \in DOMAIN pc : \E p \in Proc : Turn(r) /\ DoMalloc(r, p)
    \/ \E r \in DOMAIN pc : \E p \in Proc : Turn(r) /\ DoFork(r, p)
    \/ \E r \in DOMAIN pc : \E p \in Proc : Turn(r) /\ DoStore(r, p)
    \/ \E r \in DOMAIN pc : \E p \in Proc : Turn(r) /\ DoSleep(r, p)
    \/ \E r \in DOMAIN pc : \E p \in Proc : Turn(r) /\ DoWakeup(r, p)
    \/ \E r \in DOMAIN pc : \E p \in Proc : Turn(r) /\ DoVerdict(r, p)
    \/ \E r \in DOMAIN pc : \E p \in Proc : Turn(r) /\ DoWait(r, p)
    \/ \E r \in DOMAIN pc : \E p \in Proc : Turn(r) /\ DoExit(r, p)

Spec == Init /\ [][Next]_vars

SpecPair == InitPair /\ [][Next]_vars

(***************************************************************************)
(* The verdict comparisons as functions of the two snapshots.              *)
(***************************************************************************)
Counts == 0 .. MaxCount

\* The verdict lines of the programs: <<program, line of the if>>.
VerdictSites ==
    {<<"test4", 46>>, <<"test4", 65>>, <<"testcow", 44>>, <<"testcow", 60>>}

InitVerdict ==
    /\ InitRun(1)
    /\ prog[1] = "test4"
    /\ freePages[1] = MinFree
    /\ \E af \in Counts : \E am \in Counts :
            probe = [af |-> af, am |-> am, done |-> FALSE, ok |-> <<>>]

Evaluate ==
    /\ ~probe.done
    /\ probe' = [probe EXCEPT
            !.done = TRUE,
            !.ok = [s \in VerdictSites |->
                       Compare(s[1], s[2], probe.am, probe.af)]]
    /\ UNCHANGED << schedules, prog, pc, local, out, pstate, freePages,
                    kpages, frame, writable, refcnt, mem, calls, stores, seen >>

NextVerdict == Evaluate

SpecVerdict == InitVerdict /\ [][NextVerdict]_vars

(***************************************************************************)
(* Vocabulary of the properties.                                           *)
(***************************************************************************)
Runs == DOMAIN pc

Forked(r) == calls[r][Parent]["fork"] > 0 /\ local[r][Parent].pid > 0
ForkFailed(r) == calls[r][Parent]["fork"] > 0 /\ local[r][Parent].pid < 0
MallocFailed(r) == local[r][Parent].parent_memory = 0

AfterFork(r, p) == local[r][p].free_pages_after_fork
AfterMod(r, p) == local[r][p].free_pages_after_modification
Snapped(r, p) == seen[r][p] # Unset
Measured(r, p) == AfterMod(r, p) # Unset
Stored(r, p) == calls[r][p]["store"] > 0
Exited(r, p) ==
    \/ pstate[r][p] = "zombie"
    \/ Forked(r) /\ pstate[r][p] = "unused"

\* The line of the verdict's if in process p of program pg.
VerdictIf(pg, p) ==
    IF pg = "test4" THEN (IF p = Child THEN 46 ELSE 65)
    ELSE (IF p = Child THEN 44 ELSE 60)

Printed(r, p, line) == \E i \in DOMAIN out[r][p] : out[r][p][i] = line
SaidOk(r, p) == Printed(r, p, Code(prog[r])[VerdictIf(prog[r], p)].ok)
SaidBad(r, p) == Printed(r, p, Code(prog[r])[VerdictIf(prog[r], p)].bad)

StepOf(r, p) ==
    \/ DoGetFree(r, p) \/ DoPrintf(r, p) \/ DoMalloc(r, p) \/ DoFork(r, p)
    \/ DoStore(r, p) \/ DoSleep(r, p) \/ DoWakeup(r, p) \/ DoVerdict(r, p)
    \/ DoWait(r, p) \/ DoExit(r, p)

(***************************************************************************)
(* C1.  In testcow.c (both processes) and in the parent of test4.c, the    *)
(* count a process reads after its own store is strictly less than its     *)
(* post-fork snapshot, under every interleaving: the process prints the    *)
(* success verdict and never the failure verdict.                          *)
(***************************************************************************)
C1_WriterAlwaysSeesDecrease ==
    \A r \in Runs : \A p \in Proc :
        (prog[r] = "testcow" \/ p = Parent) =>
            /\ Measured(r, p) => AfterMod(r, p) < AfterFork(r, p)
            /\ ~SaidBad(r, p)

(***************************************************************************)
(* C2.  In test4.c the count the child reads after its store equals the    *)
(* child's post-fork snapshot under every interleaving: the child prints   *)
(* the success verdict and never the failure verdict.                      *)
(***************************************************************************)
C2_Test4ChildAlwaysSeesNoChange ==
    \A r \in Runs :
        prog[r] = "test4" =>
            /\ Measured(r, Child) => AfterMod(r, Child) = AfterFork(r, Child)
            /\ ~SaidBad(r, Child)

(***************************************************************************)
(* C3.  When parent and child both take their post-fork snapshot before    *)
(* either has stored into the buffer, the two snapshots are equal, and the *)
(* free-page counter does not change between fork's return and the first   *)
(* store.                                                                  *)
(***************************************************************************)
C3_SnapshotsEqualBeforeWrites ==
    /\ [](\A r \in Runs :
            /\ (seen[r][Parent] = 0 /\ seen[r][Child] = 0) =>
                   AfterFork(r, Parent) = AfterFork(r, Child)
            /\ (Forked(r) /\ stores[r] = <<>>) =>
                   /\ frame[r][Parent] = frame[r][Child]
                   /\ refcnt[r][frame[r][Parent]] = 2)
    /\ [][\A r \in Runs :
            (Forked(r) /\ stores[r] = <<>> /\ stores'[r] = <<>>) =>
                freePages'[r] = freePages[r]]_vars

C3_Witness ==
    \E r \in Runs :
        /\ seen[r][Parent] = 0 /\ seen[r][Child] = 0
        /\ AfterFork(r, Parent) = AfterFork(r, Child)
        /\ AfterFork(r, Parent) < local[r][Parent].free_pages_after_alloc

C5_ChildVerdictsContradict ==
    probe.done =>
        /\ probe.ok[<<"test4", 46>>] = (probe.am = probe.af)
        /\ probe.ok[<<"testcow", 44>>] = (probe.am < probe.af)
        /\ ~(probe.ok[<<"test4", 46>>] /\ probe.ok[<<"testcow", 44>>])
        /\ probe.ok[<<"test4", 65>>] = (probe.am < probe.af)
        /\ probe.ok[<<"testcow", 60>>] = (probe.am < probe.af)

C5_Witness ==
    /\ probe.done
    /\ probe.am < probe.af
    /\ probe.ok[<<"testcow", 44>>]
    /\ ~probe.ok[<<"test4", 46>>]

(***************************************************************************)
(* C6.  While no process has exited, the snapshots of a process never      *)
(* increase: initial >= after allocation >= after fork >= after            *)
(* modification, for parent and child.                                     *)
(***************************************************************************)
NotAbove(later, earlier) == later # Unset => (earlier # Unset /\ later <= earlier)

C6_SnapshotsNeverIncrease ==
    \A r \in Runs :
        (\A q \in Proc : ~Exited(r, q)) =>
            \A p \in Proc :
                LET l == local[r][p]
                IN  /\ NotAbove(l.free_pages_after_alloc, l.initial_free_pages)
                    /\ NotAbove(l.free_pages_after_fork, l.free_pages_after_alloc)
                    /\ NotAbove(l.free_pages_after_modification,
                                l.free_pages_after_fork)

C6_Witness ==
    \E r \in Runs :
        /\ \A q \in Proc : ~Exited(r, q)
        /\ \A p \in Proc : Measured(r, p)
        /\ local[r][Parent].free_pages_after_alloc
               < local[r][Parent].initial_free_pages
        /\ AfterFork(r, Child) < local[r][Child].free_pages_after_alloc
        /\ AfterMod(r, Child) < AfterFork(r, Child)

(***************************************************************************)
(* C7.  After malloc returns 0 the program prints its message and exits:   *)
(* no after-allocation snapshot, no fork, no store.  After fork returns a  *)
(* negative value it prints its message and exits: no post-fork snapshot,  *)
(* no store, no wait, no child.  Neither call is made a second time.       *)
(***************************************************************************)
C7_FailureOnlyPrintsAndExits ==
    \A r \in Runs :
        /\ calls[r][Parent]["malloc"] <= 1
        /\ calls[r][Parent]["fork"] <= 1
        /\ MallocFailed(r) =>
            /\ pc[r][Parent] \in {17, 18, 0}
            /\ out[r][Parent] \in {<<12>>, <<12, 17>>}
            /\ local[r][Parent].free_pages_after_alloc = Unset
            /\ calls[r][Parent]["fork"] = 0
            /\ calls[r][Parent]["store"] = 0
            /\ pstate[r][Child] = "unused" /\ pc[r][Child] = 0
        /\ ForkFailed(r) =>
            /\ pc[r][Parent] \in {28, 29, 0}
            /\ out[r][Parent] \in {<<12, 23>>, <<12, 23, 28>>}
            /\ ~Snapped(r, Parent) /\ AfterFork(r, Parent) = Unset
            /\ calls[r][Parent]["store"] = 0
            /\ calls[r][Parent]["wait"] = 0
            /\ pstate[r][Child] = "unused" /\ pc[r][Child] = 0
            /\ frame[r][Child] = 0

C7_Witness ==
    \E r \in Runs :
        /\ ForkFailed(r)
        /\ pstate[r][Parent] = "zombie"
        /\ out[r][Parent] = <<12, 23, 28>>

C9_VerdictFollowsSchedule ==
    \A r \in Runs :
        prog[r] = "test4" =>
            /\ Forked(r) => (pc[r][Child] = 35 <=> ~Snapped(r, Child))
            /\ (SaidOk(r, Child) \/ SaidBad(r, Child)) =>
                   (SaidOk(r, Child) <=> seen[r][Child] = 1)
            /\ (SaidOk(r, Parent) \/ SaidBad(r, Parent)) =>
                   (SaidOk(r, Parent) <=> seen[r][Parent] = 0)

C9_Witness ==
    \E a \in Runs : \E b \in Runs :
        /\ prog[a] = "test4" /\ prog[b] = "test4"
        /\ local[a][Parent].initial_free_pages
               = local[b][Parent].initial_free_pages
        /\ local[a][Parent].free_pages_after_alloc
               = local[b][Parent].free_pages_after_alloc
        /\ Finished(a) /\ Finished(b)
        /\ SaidOk(a, Child) /\ SaidBad(b, Child)
        /\ SaidOk(a, Parent) /\ SaidBad(b, Parent)

(***************************************************************************)
(* C10.  Each process stores one byte once, and a store is never visible   *)
(* to the other process: after its store the parent's buffer holds 'P' and *)
(* the child's holds 'C', whatever the order of the stores, and the two    *)
(* processes never both map the same frame writable.                       *)
(***************************************************************************)
C10_BufferDiverges ==
    \A r \in Runs : \A p \in Proc :
        /\ calls[r][p]["store"] <= 1
        /\ Measured(r, p) => calls[r][p]["store"] = 1
        /\ (Stored(r, p) /\ frame[r][p] # 0) =>
               mem[r][frame[r][p]] = (IF p = Parent THEN "P" ELSE "C")
        /\ (writable[r][p] /\ writable[r][Other(p)]) =>
               frame[r][p] # frame[r][Other(p)]

C10_Witness ==
    \E r \in Runs :
        /\ stores[r] = <<Parent, Child>>
        /\ frame[r][Parent] # 0 /\ frame[r][Child] # 0
        /\ mem[r][frame[r][Parent]] = "P"
        /\ mem[r][frame[r][Child]] = "C"
        /\ writable[r][Parent] /\ writable[r][Child]

====
